---- MODULE Spec2Model ----
(***************************************************************************)
(* count.py: matching of a scored-variant ("weights") table against a      *)
(* genotype-panel ("BIM") table on the normalized (chromosome, position)   *)
(* key.  Strings are sequences of one-character strings, so that the       *)
(* string conversions of the program (str.replace, str.strip, str.split)   *)
(* are computed and not assumed.                                           *)
(***************************************************************************)
EXTENDS Integers, Sequences, FiniteSets, TLC

VARIABLES
    pc,                 \* position of the running caller (main or a direct caller)
    out,                \* what has been printed so far, one tag per print call
    weights_file,       \* the weights CSV on disk
    bim_file,           \* the BIM file on disk
    target_chrom,       \* argument of read_weights_file
    example_limit,      \* argument of collect_examples
    bim_positions,      \* read_bim_file's first result
    bim_df,             \* read_bim_file's second result
    weights_df,         \* read_weights_file's first result
    weights_positions,  \* read_weights_file's second result
    matched_positions,  \* find_matches' results
    matched_count,
    total,
    percentage,
    examples            \* outcome of the collect_examples call

vars == <<pc, out, weights_file, bim_file, target_chrom, example_limit,
          bim_positions, bim_df, weights_df, weights_positions,
          matched_positions, matched_count, total, percentage, examples>>

-----------------------------------------------------------------------------
(* Bounds of the model *)

MaxBimRows == 3
MaxWeightsRows == 3
MaxExampleLimit == 3

-----------------------------------------------------------------------------
(* Python and pandas string primitives *)

\* str.lower on the letters the pattern 'chr' can meet
Lower(c) ==
    CASE c = "C" -> "c"
      [] c = "H" -> "h"
      [] c = "R" -> "r"
      [] OTHER -> c

IsSpace(c) == c \in {" ", "\t"}

\* does the literal pattern pat match s at its start (re.IGNORECASE when icase)
MatchesAt(s, pat, icase) ==
    /\ Len(s) >= Len(pat)
    /\ \A i \in 1..Len(pat) :
          IF icase THEN Lower(s[i]) = Lower(pat[i]) ELSE s[i] = pat[i]

\* Series.str.replace(pat, repl, case=...) on one value: every non-overlapping
\* occurrence, found left to right in a single pass, is replaced
RECURSIVE ReplaceAll(_, _, _, _)
ReplaceAll(s, pat, repl, icase) ==
    IF Len(s) < Len(pat) \/ Len(pat) = 0 THEN s
    ELSE IF MatchesAt(s, pat, icase)
         THEN repl \o ReplaceAll(SubSeq(s, Len(pat) + 1, Len(s)), pat, repl, icase)
         ELSE <<Head(s)>> \o ReplaceAll(Tail(s), pat, repl, icase)

RECURSIVE LStrip(_)
LStrip(s) == IF s # <<>> /\ IsSpace(Head(s)) THEN LStrip(Tail(s)) ELSE s

RECURSIVE RStrip(_)
RStrip(s) ==
    IF s # <<>> /\ IsSpace(s[Len(s)]) THEN RStrip(SubSeq(s, 1, Len(s) - 1)) ELSE s

\* str.strip()
Strip(s) == RStrip(LStrip(s))

\* str.split(d): the fields between the occurrences of the delimiter
RECURSIVE Split(_, _)
Split(s, d) ==
    IF \A i \in 1..Len(s) : s[i] # d THEN <<s>>
    ELSE LET k == CHOOSE i \in 1..Len(s) : s[i] = d /\ \A j \in 1..(i - 1) : s[j] # d
         IN  <<SubSeq(s, 1, k - 1)>> \o Split(SubSeq(s, k + 1, Len(s)), d)

\* the pattern 'chr'
ChrPattern == <<"c", "h", "r">>

\* .str.replace('chr', '', case=False).str.strip()
NormChrom(raw) == Strip(ReplaceAll(raw, ChrPattern, <<>>, TRUE))

\* .str.strip() on a position
NormPos(raw) == Strip(raw)

\* the missing value a column of split(':', expand=True) holds for a row with
\* fewer fields; str.strip() leaves it missing
Missing == <<"<missing>">>

-----------------------------------------------------------------------------
(* Input tables *)

s22 == <<"2", "2">>
s1 == <<"1">>
p100 == <<"1", "0", "0">>
p200 == <<"2", "0", "0">>

\* rows of a BIM file: columns 0, 1, 4, 5
BimRowValues ==
    { [chrom |-> s22, variant |-> <<"2","2",":","1","0","0",":","A",":","T">>,
       allele1 |-> <<"A">>, allele2 |-> <<"T">>],
      [chrom |-> <<"c","h","r","2","2">>,
       variant |-> <<"C","h","r","2","2",":","1","0","0",":","A",":","T">>,
       allele1 |-> <<"A">>, allele2 |-> <<"T">>],
      [chrom |-> s22, variant |-> <<"2","2",":","3","0","0",":","G",":","C">>,
       allele1 |-> <<"G">>, allele2 |-> <<"C">>],
      [chrom |-> s22, variant |-> <<"r","s","2","0","0">>,
       allele1 |-> <<"A">>, allele2 |-> <<"G">>] }

\* rows of a weights CSV: columns chr, pos, effect_allele, weight, id
WeightsRowValues ==
    { [chr |-> s22, pos |-> p100, effect_allele |-> <<"A">>,
       weight |-> "0.5", id |-> "v1"],
      [chr |-> <<" ","C","h","r","2","2"," ">>, pos |-> <<" ","1","0","0"," ">>,
       effect_allele |-> <<"T">>, weight |-> "0.25", id |-> "v2"],
      [chr |-> <<"2","c","h","r","2">>, pos |-> p200, effect_allele |-> <<"G">>,
       weight |-> "0.1", id |-> "v3"],
      [chr |-> s1, pos |-> p100, effect_allele |-> <<"C">>,
       weight |-> "0.3", id |-> "v4"] }

SeqsUpTo(S, n) == UNION { [1..k -> S] : k \in 0..n }

\* a file is absent, present but not parseable by pd.read_csv, or a table
FileStates(rowValues, n) ==
    { [status |-> "absent", rows |-> <<>>], [status |-> "unreadable", rows |-> <<>>] }
    \cup { [status |-> "table", rows |-> r] : r \in SeqsUpTo(rowValues, n) }

BimFiles == FileStates(BimRowValues, MaxBimRows)
WeightsFiles == FileStates(WeightsRowValues, MaxWeightsRows)

TargetChroms == {s22, s1}

-----------------------------------------------------------------------------
(* read_bim_file *)

\* bim_df with the 'chr' prefix of the token's chromosome left in place
BimFrameRawChrom(rows) ==
    [ i \in 1..Len(rows) |->
        LET fields == Split(rows[i].variant, ":")
        IN  [ chrom         |-> NormChrom(rows[i].chrom),
              variant       |-> rows[i].variant,
              allele1       |-> rows[i].allele1,
              allele2       |-> rows[i].allele2,
              chrom_variant |-> Strip(fields[1]),
              pos_variant   |-> IF Len(fields) >= 2 THEN NormPos(fields[2])
                                ELSE Missing ] ]

\* bim_df after lines 21-25: 'chrom' normalized, and the two columns taken from
\* the fields of the composite token; a row with a single field has no position
BimFrame(rows) ==
    [ i \in 1..Len(rows) |->
        LET fields == Split(rows[i].variant, ":")
        IN  [ chrom         |-> NormChrom(rows[i].chrom),
              variant       |-> rows[i].variant,
              allele1       |-> rows[i].allele1,
              allele2       |-> rows[i].allele2,
              chrom_variant |-> NormChrom(fields[1]),
              pos_variant   |-> IF Len(fields) >= 2 THEN NormPos(fields[2])
                                ELSE Missing ] ]

\* the statements of the try block that raise: pd.read_csv on an absent, an
\* unparseable or an empty file, and split_variants[1] when no token of the
\* file has a second field (the expanded frame has the single column 0)
BimReadRaises(file) ==
    \/ file.status # "table"
    \/ file.rows = <<>>
    \/ \A i \in 1..Len(file.rows) : Len(Split(file.rows[i].variant, ":")) < 2

read_bim_file(file) ==
    IF BimReadRaises(file)
    THEN [ positions |-> {}, df |-> <<>>,
           printed |-> <<"Reading BIM file...", "Error reading BIM file">> ]
    ELSE LET df == BimFrame(file.rows)
         IN  [ positions |-> { <<df[i].chrom_variant, df[i].pos_variant>> :
                                  i \in 1..Len(df) },
               df |-> df,
               printed |-> <<"Reading BIM file...", "Total positions in BIM file">> ]

-----------------------------------------------------------------------------
(* read_weights_file *)

\* weights_df without the filter of line 49
WeightsFrameUnfiltered(rows, chrom) ==
    [ i \in 1..Len(rows) |->
        [ chr           |-> NormChrom(rows[i].chr),
          pos           |-> NormPos(rows[i].pos),
          effect_allele |-> rows[i].effect_allele,
          weight        |-> rows[i].weight,
          id            |-> rows[i].id ] ]

\* weights_df after lines 47-49
WeightsFrame(rows, chrom) ==
    LET norm == [ i \in 1..Len(rows) |->
                    [ chr           |-> NormChrom(rows[i].chr),
                      pos           |-> NormPos(rows[i].pos),
                      effect_allele |-> rows[i].effect_allele,
                      weight        |-> rows[i].weight,
                      id            |-> rows[i].id ] ]
    IN  SelectSeq(norm, LAMBDA r : r.chr = chrom)

\* one line per row of weights_df.head(5)
RECURSIVE First5Lines(_)
First5Lines(n) == IF n = 0 THEN <<>> ELSE <<"Variant">> \o First5Lines(n - 1)

HeadRows == 5

Min(a, b) == IF a <= b THEN a ELSE b

read_weights_file(file, chrom) ==
    IF file.status # "table"
    THEN [ df |-> <<>>, positions |-> {},
           printed |-> <<"Reading weights file...", "Error reading weights file">> ]
    ELSE LET df == WeightsFrame(file.rows, chrom)
         IN  [ df |-> df,
               positions |-> { <<df[i].chr, df[i].pos>> : i \in 1..Len(df) },
               printed |-> <<"Reading weights file...",
                             "Total positions in weights file",
                             "First 5 parsed variants from weights file:">>
                           \o First5Lines(Min(HeadRows, Len(df))) ]

-----------------------------------------------------------------------------
(* find_matches *)

\* find_matches without the total > 0 guard of line 75
find_matches_unguarded(wpos, bpos) ==
    LET matched == wpos \cap bpos
        count   == Cardinality(matched)
        tot     == Cardinality(wpos)
    IN  [ matched_positions |-> matched,
          matched_count     |-> count,
          total             |-> tot,
          percentage        |-> [num |-> count * 100, den |-> tot],
          printed |-> <<"Finding matched positions...", "Total matched positions",
                        "Percentage of matched positions">> ]

\* the percentage is kept exact, as the fraction num/den
find_matches(wpos, bpos) ==
    LET matched == wpos \cap bpos
        count   == Cardinality(matched)
        tot     == Cardinality(wpos)
    IN  [ matched_positions |-> matched,
          matched_count     |-> count,
          total             |-> tot,
          percentage        |-> IF tot > 0 THEN [num |-> count * 100, den |-> tot]
                                ELSE [num |-> 0, den |-> 1],
          printed |-> <<"Finding matched positions...", "Total matched positions",
                        "Percentage of matched positions">> ]

-----------------------------------------------------------------------------
(* collect_examples *)

\* the outcome of an expression or of a call: a value, or the exception raised
Value(v) == [raised |-> "", value |-> v]
Raise(e) == [raised |-> e, value |-> <<>>]

\* the keyword arguments the built-in str.replace(old, new, count) accepts
StrReplaceKeywords == {}

\* the pattern '[ACTG]'
AllelePattern == <<"[", "A", "C", "T", "G", "]">>

\* s.replace(old, new, **kwargs) on a Python str: a literal replacement
PyStrReplace(s, old, new, kwargs) ==
    IF kwargs \subseteq StrReplaceKeywords
    THEN Value(ReplaceAll(s, old, new, FALSE))
    ELSE Raise("TypeError")

\* the names bound in the module's namespace when collect_examples runs:
\* the imports (lines 1-3) and the five functions
ModuleGlobals ==
    [ n \in {"pd", "os", "tqdm", "read_bim_file", "read_weights_file",
             "find_matches", "collect_examples", "main"} |-> {} ]

\* weights_positions is neither a parameter of collect_examples nor assigned in
\* it, so line 114 loads it from the module namespace
LoadGlobal(globals, name) ==
    IF name \in DOMAIN globals THEN Value(globals[name]) ELSE Raise("NameError")

\* df[...].iloc[0]: the first row with the key, IndexError when there is none
FirstRow(rows) == IF rows = <<>> THEN Raise("IndexError") ELSE Value(rows[1])

\* list(a_set)[:n], for n >= 0: the set in the iteration order given
RECURSIVE ListOf(_, _)
ListOf(S, order) ==
    IF order = <<>> THEN <<>>
    ELSE (IF Head(order) \in S THEN <<Head(order)>> ELSE <<>>) \o ListOf(S, Tail(order))

Take(l, n) == SubSeq(l, 1, Min(n, Len(l)))

\* lines 93-111: the example of one matched variant
MatchExample(wdf, bdf, variant) ==
    LET w == FirstRow(SelectSeq(wdf,
                 LAMBDA r : r.chr = variant[1] /\ r.pos = variant[2]))
        b == FirstRow(SelectSeq(bdf,
                 LAMBDA r : r.chrom_variant = variant[1] /\ r.pos_variant = variant[2]))
    IN  IF w.raised # "" THEN w
        ELSE IF b.raised # "" THEN b
        ELSE LET weight_row == w.value
                 bim_row == b.value
                 a1 == PyStrReplace(bim_row.allele1, AllelePattern, <<"X">>, {"regex"})
                 a2 == PyStrReplace(bim_row.allele2, AllelePattern, <<"X">>, {"regex"})
             IN  IF a1.raised # "" THEN a1
                 ELSE IF a2.raised # "" THEN a2
                 ELSE Value([ weights_chr           |-> weight_row.chr,
                              weights_pos           |-> weight_row.pos,
                              weights_effect_allele |-> weight_row.effect_allele,
                              weights_weight        |-> weight_row.weight,
                              weights_id            |-> weight_row.id,
                              bim_chrom             |-> bim_row.chrom,
                              bim_pos               |-> bim_row.pos_variant,
                              bim_variant           |-> bim_row.chrom_variant \o <<":">>
                                  \o bim_row.pos_variant \o <<":">> \o a1.value
                                  \o <<":">> \o a2.value ])

\* lines 92-111: the loop over matched_list, left by the first exception
RECURSIVE MatchLoop(_, _, _, _)
MatchLoop(wdf, bdf, list, acc) ==
    IF list = <<>> THEN Value(acc)
    ELSE LET e == MatchExample(wdf, bdf, Head(list))
         IN  IF e.raised # "" THEN e
             ELSE MatchLoop(wdf, bdf, Tail(list), Append(acc, e.value))

\* lines 117-127: the example of one unmatched variant
NonMatchExample(wdf, variant) ==
    LET w == FirstRow(SelectSeq(wdf,
                 LAMBDA r : r.chr = variant[1] /\ r.pos = variant[2]))
    IN  IF w.raised # "" THEN w
        ELSE Value([ weights_chr           |-> w.value.chr,
                     weights_pos           |-> w.value.pos,
                     weights_effect_allele |-> w.value.effect_allele,
                     weights_weight        |-> w.value.weight,
                     weights_id            |-> w.value.id,
                     match_status          |-> "No Match" ])

RECURSIVE NonMatchLoop(_, _, _)
NonMatchLoop(wdf, list, acc) ==
    IF list = <<>> THEN Value(acc)
    ELSE LET e == NonMatchExample(wdf, Head(list))
         IN  IF e.raised # "" THEN e
             ELSE NonMatchLoop(wdf, Tail(list), Append(acc, e.value))

\* what a call of collect_examples leaves: the exception that ended it, or the
\* two lists it returned
Outcome(e, m, n) == [raised |-> e, example_matches |-> m, example_non_matches |-> n]

\* collect_examples, run in the module namespace `globals`; `order` is the
\* iteration order of the two sets
collect_examples(wdf, matched, bdf, limit, globals, order) ==
    LET ms == IF matched # {}
              THEN MatchLoop(wdf, bdf, Take(ListOf(matched, order), limit), <<>>)
              ELSE Value(<<>>)
    IN  IF ms.raised # "" THEN Outcome(ms.raised, <<>>, <<>>)
        ELSE LET wp == LoadGlobal(globals, "weights_positions")
             IN  IF wp.raised # "" THEN Outcome(wp.raised, <<>>, <<>>)
                 ELSE LET ns == NonMatchLoop(wdf,
                                   Take(ListOf(wp.value \ matched, order), limit), <<>>)
                      IN  IF ns.raised # "" THEN Outcome(ns.raised, <<>>, <<>>)
                          ELSE Outcome("", ms.value, ns.value)

-----------------------------------------------------------------------------
(* State machine *)

DefaultExampleLimit == 5

Perms(S) ==
    { f \in [1..Cardinality(S) -> S] : \A i, j \in 1..Cardinality(S) : f[i] = f[j] => i = j }

NoExamples == Outcome("", <<>>, <<>>)

InitResults ==
    /\ out = <<>>
    /\ bim_positions = {}
    /\ bim_df = <<>>
    /\ weights_df = <<>>
    /\ weights_positions = {}
    /\ matched_positions = {}
    /\ matched_count = 0
    /\ total = 0
    /\ percentage = [num |-> 0, den |-> 1]
    /\ examples = NoExamples

\* main, lines 132-134: the two paths and target_chrom = '22'
Init ==
    /\ pc = "main"
    /\ weights_file \in WeightsFiles
    /\ bim_file \in BimFiles
    /\ target_chrom = s22
    /\ example_limit = DefaultExampleLimit
    /\ InitResults

\* the effect of the three functions on the caller's variables
DoReadBim ==
    LET r == read_bim_file(bim_file)
    IN  /\ bim_positions' = r.positions
        /\ bim_df' = r.df
        /\ out' = out \o r.printed

DoReadWeights(chrom) ==
    LET r == read_weights_file(weights_file, chrom)
    IN  /\ weights_df' = r.df
        /\ weights_positions' = r.positions
        /\ target_chrom' = chrom
        /\ out' = out \o r.printed

DoFindMatches ==
    LET r == find_matches(weights_positions, bim_positions)
    IN  /\ matched_positions' = r.matched_positions
        /\ matched_count' = r.matched_count
        /\ total' = r.total
        /\ percentage' = r.percentage
        /\ out' = out \o r.printed

\* lines 136-142
MainCheckFiles ==
    /\ pc = "main"
    /\ IF weights_file.status = "absent"
       THEN /\ out' = Append(out, "Error: Weights file does not exist.")
            /\ pc' = "returned"
       ELSE IF bim_file.status = "absent"
       THEN /\ out' = Append(out, "Error: BIM file does not exist.")
            /\ pc' = "returned"
       ELSE /\ out' = out
            /\ pc' = "read_bim"
    /\ UNCHANGED <<weights_file, bim_file, target_chrom, example_limit,
                   bim_positions, bim_df, weights_df, weights_positions,
                   matched_positions, matched_count, total, percentage, examples>>

\* line 145
MainReadBim ==
    /\ pc = "read_bim"
    /\ DoReadBim
    /\ pc' = "read_weights"
    /\ UNCHANGED <<weights_file, bim_file, target_chrom, example_limit,
                   weights_df, weights_positions,
                   matched_positions, matched_count, total, percentage, examples>>

\* line 148
MainReadWeights ==
    /\ pc = "read_weights"
    /\ DoReadWeights(target_chrom)
    /\ pc' = "check_positions"
    /\ UNCHANGED <<weights_file, bim_file, example_limit, bim_positions, bim_df,
                   matched_positions, matched_count, total, percentage, examples>>

\* lines 150-152 without the early return
MainCheckPositionsNoReturn ==
    /\ pc = "check_positions"
    /\ out' = out
    /\ pc' = "find_matches"
    /\ UNCHANGED <<weights_file, bim_file, target_chrom, example_limit,
                   bim_positions, bim_df, weights_df, weights_positions,
                   matched_positions, matched_count, total, percentage, examples>>

\* lines 150-152
MainCheckPositions ==
    /\ pc = "check_positions"
    /\ IF weights_positions = {}
       THEN /\ out' = Append(out, "No positions found in weights file")
            /\ pc' = "returned"
       ELSE /\ out' = out
            /\ pc' = "find_matches"
    /\ UNCHANGED <<weights_file, bim_file, target_chrom, example_limit,
                   bim_positions, bim_df, weights_df, weights_positions,
                   matched_positions, matched_count, total, percentage, examples>>

\* line 155
MainFindMatches ==
    /\ pc = "find_matches"
    /\ DoFindMatches
    /\ pc' = "collect_examples"
    /\ UNCHANGED <<weights_file, bim_file, target_chrom, example_limit,
                   bim_positions, bim_df, weights_df, weights_positions, examples>>

\* lines 160-183: the report
Report(e) ==
    <<"Processing complete.", "Total matched positions",
      "Percentage of matched positions">>
    \o (IF e.example_matches # <<>> THEN <<"Example Matches:">>
        ELSE <<"No example matches found.">>)
    \o (IF e.example_non_matches # <<>> THEN <<"Example Non-Matches (from Weights File):">>
        ELSE <<"No example non-matches found.">>)

\* lines 158-183: an exception of collect_examples is caught nowhere and ends main
MainCollectExamples ==
    /\ pc = "collect_examples"
    /\ \E order \in Perms(weights_positions \cup matched_positions) :
          LET e == collect_examples(weights_df, matched_positions, bim_df,
                                    example_limit, ModuleGlobals, order)
          IN  /\ examples' = e
              /\ IF e.raised # ""
                 THEN /\ out' = Append(out, "Collecting example matches and non-matches...")
                      /\ pc' = "raised"
                 ELSE /\ out' = Append(out, "Collecting example matches and non-matches...")
                                  \o Report(e)
                      /\ pc' = "returned"
    /\ UNCHANGED <<weights_file, bim_file, target_chrom, example_limit,
                   bim_positions, bim_df, weights_df, weights_positions,
                   matched_positions, matched_count, total, percentage>>

Next ==
    \/ MainCheckFiles
    \/ MainReadBim
    \/ MainReadWeights
    \/ MainCheckPositions
    \/ MainFindMatches
    \/ MainCollectExamples

Spec == Init /\ [][Next]_vars

-----------------------------------------------------------------------------
(* The four functions called one after the other by a caller other than    *)
(* main (an importing script, a test), with arguments of its choice and    *)
(* without main's guards.                                                   *)

InitCalls ==
    /\ pc = "call_read_bim"
    /\ weights_file \in WeightsFiles
    /\ bim_file \in BimFiles
    /\ target_chrom = s22
    /\ example_limit = DefaultExampleLimit
    /\ InitResults

CallReadBim ==
    /\ pc = "call_read_bim"
    /\ DoReadBim
    /\ pc' = "call_read_weights"
    /\ UNCHANGED <<weights_file, bim_file, target_chrom, example_limit,
                   weights_df, weights_positions,
                   matched_positions, matched_count, total, percentage, examples>>

CallReadWeights ==
    /\ pc = "call_read_weights"
    /\ \E chrom \in TargetChroms : DoReadWeights(chrom)
    /\ pc' = "call_find_matches"
    /\ UNCHANGED <<weights_file, bim_file, example_limit, bim_positions, bim_df,
                   matched_positions, matched_count, total, percentage, examples>>

CallFindMatches ==
    /\ pc = "call_find_matches"
    /\ DoFindMatches
    /\ pc' = "call_collect_examples"
    /\ UNCHANGED <<weights_file, bim_file, target_chrom, example_limit,
                   bim_positions, bim_df, weights_df, weights_positions, examples>>

CallCollectExamples ==
    /\ pc = "call_collect_examples"
    /\ \E limit \in 0..MaxExampleLimit,
          order \in Perms(weights_positions \cup matched_positions) :
          /\ example_limit' = limit
          /\ examples' = collect_examples(weights_df, matched_positions, bim_df,
                                          limit, ModuleGlobals, order)
    /\ out' = Append(out, "Collecting example matches and non-matches...")
    /\ pc' = "call_done"
    /\ UNCHANGED <<weights_file, bim_file, target_chrom,
                   bim_positions, bim_df, weights_df, weights_positions,
                   matched_positions, matched_count, total, percentage>>

NextCalls ==
    \/ CallReadBim
    \/ CallReadWeights
    \/ CallFindMatches
    \/ CallCollectExamples

SpecCalls == InitCalls /\ [][NextCalls]_vars

-----------------------------------------------------------------------------
(* Properties *)

Printed(tag) == \E i \in 1..Len(out) : out[i] = tag

\* position of the first print of tag; Printed(tag) is assumed
FirstPrint(tag) == CHOOSE i \in 1..Len(out) : out[i] = tag /\ \A j \in 1..(i - 1) : out[j] # tag

TimesPrinted(tag) == Cardinality({ i \in 1..Len(out) : out[i] = tag })

FoundMatches == Printed("Finding matched positions...")
Collected == Printed("Collecting example matches and non-matches...")

NumFields(row) == Len(Split(row.variant, ":"))

\* a panel row whose composite token has the ':' separator
WellFormedRow(row) == NumFields(row) >= 2

RowsOf(file) == { file.rows[i] : i \in 1..Len(file.rows) }

\* the keys of the weights rows on the target chromosome, row by row
TargetWeightsKeys ==
    { <<NormChrom(r.chr), NormPos(r.pos)>> :
        r \in { x \in RowsOf(weights_file) : NormChrom(x.chr) = target_chrom } }

\* the keys of the well-formed panel rows, row by row
PanelTokenKeys ==
    { <<NormChrom(Split(r.variant, ":")[1]), NormPos(Split(r.variant, ":")[2])>> :
        r \in { x \in RowsOf(bim_file) : WellFormedRow(x) } }

\* C1: for well-formed tables, matched_count is the number of distinct
\* normalized keys that occur both among the weights rows of the target
\* chromosome and among the panel rows' tokens, whatever the duplicates.
C1_MatchedCount ==
    ( /\ FoundMatches
      /\ weights_file.status = "table"
      /\ bim_file.status = "table"
      /\ \A r \in RowsOf(bim_file) : WellFormedRow(r) )
    => matched_count = Cardinality(TargetWeightsKeys \cap PanelTokenKeys)

\* C1 witness: three weights rows of which two share a key and one lies on
\* another chromosome, three panel rows of which two share a key, one match
C1_Witness ==
    /\ FoundMatches
    /\ \A r \in RowsOf(bim_file) : WellFormedRow(r)
    /\ Len(weights_file.rows) = 3 /\ Len(weights_df) = 2
    /\ Cardinality(weights_positions) = 1
    /\ Len(bim_df) = 3 /\ Cardinality(bim_positions) = 2
    /\ matched_count = 1

\* C2: once read_bim_file has taken its exception path, main has reported the
\* error once and neither reads the weights file, nor calls find_matches, nor
\* prints a match count or percentage.
C2_BimErrorIsFatal ==
    Printed("Error reading BIM file")
    => /\ TimesPrinted("Error reading BIM file") = 1
       /\ ~Printed("Reading weights file...")
       /\ ~FoundMatches
       /\ ~Printed("Total matched positions")
       /\ ~Printed("Percentage of matched positions")

Nucleotides == {"A", "C", "G", "T"}

NoNucleotide(s) == \A i \in 1..Len(s) : s[i] \notin Nucleotides

\* C4: a call of collect_examples with at least one matched position returns
\* normally, and the two allele fields of every match example's 'bim_variant'
\* hold none of the letters A, C, G, T.
C4_AllelesMasked ==
    (Collected /\ matched_positions # {})
    => /\ examples.raised = ""
       /\ \A i \in 1..Len(examples.example_matches) :
             LET f == Split(examples.example_matches[i].bim_variant, ":")
             IN  Len(f) = 4 /\ NoNucleotide(f[3]) /\ NoNucleotide(f[4])

\* the weights keys that are not panel keys
UnmatchedKeys == weights_positions \ bim_positions

\* C5: collect_examples returns a non-match sample made of weights keys that
\* are not panel keys, each at most once, with exactly
\* min(example_limit, number of unmatched weights keys) entries.
C5_NonMatchSample ==
    Collected
    => /\ examples.raised = ""
       /\ LET n == examples.example_non_matches
          IN  /\ Len(n) = Min(example_limit, Cardinality(UnmatchedKeys))
              /\ \A i \in 1..Len(n) : <<n[i].weights_chr, n[i].weights_pos>> \in UnmatchedKeys
              /\ \A i, j \in 1..Len(n) :
                    (n[i].weights_chr = n[j].weights_chr /\ n[i].weights_pos = n[j].weights_pos)
                    => i = j

\* C6: the two lists collect_examples returns hold at most example_limit
\* entries each.
C6_SampleCapacity ==
    Collected
    => /\ examples.raised = ""
       /\ Len(examples.example_matches) <= example_limit
       /\ Len(examples.example_non_matches) <= example_limit

\* C7: the rows of a panel table whose token has no ':' are skipped without
\* aborting the read: read_bim_file does not take its exception path, its key
\* set is the key set of the other rows, and matched_count is the count
\* obtained from the other rows alone.
C7_MalformedRowsSkipped ==
    ( /\ Printed("Reading BIM file...")
      /\ bim_file.status = "table"
      /\ \E r \in RowsOf(bim_file) : ~WellFormedRow(r) )
    => /\ ~Printed("Error reading BIM file")
       /\ bim_positions = PanelTokenKeys
       /\ FoundMatches => matched_count = Cardinality(weights_positions \cap PanelTokenKeys)

\* a value with only a leading 'chr' token (any letter case) and the
\* surrounding whitespace removed
LeadingChrStripped(raw) ==
    LET t == Strip(raw)
    IN  IF MatchesAt(t, ChrPattern, TRUE) THEN Strip(SubSeq(t, 4, Len(t))) ELSE t

CleanChrom(c) ==
    /\ ~MatchesAt(c, ChrPattern, TRUE)
    /\ c = Strip(c)

\* C9: the chromosome of every key of read_weights_file and read_bim_file has
\* no leading 'chr' and no surrounding whitespace, and is the raw value with
\* only a leading 'chr' token removed.
C9_OnlyLeadingChrRemoved ==
    /\ \A k \in bim_positions \cup weights_positions : CleanChrom(k[1])
    /\ \A i \in 1..Len(bim_df) :
          bim_df[i].chrom_variant = LeadingChrStripped(Split(bim_file.rows[i].variant, ":")[1])
    /\ (Printed("Total positions in weights file"))
          => weights_positions =
                { <<LeadingChrStripped(r.chr), NormPos(r.pos)>> :
                    r \in { x \in RowsOf(weights_file) :
                              LeadingChrStripped(x.chr) = target_chrom } }

\* C8: the percentage of find_matches is 0 when the weights key set is empty
\* and lies in [0, 100] otherwise: 0 <= matched_count <= number of weights keys.
C8_PercentageRange ==
    FoundMatches
    => /\ percentage.den > 0
       /\ weights_positions = {} => percentage.num = 0
       /\ 0 <= percentage.num
       /\ percentage.num <= 100 * percentage.den
       /\ 0 <= matched_count
       /\ matched_count <= Cardinality(weights_positions)

\* C8 witness: find_matches called on an empty weights key set and a
\* non-empty panel key set
C8_Witness ==
    /\ FoundMatches
    /\ weights_positions = {}
    /\ bim_positions # {}
    /\ percentage.num = 0

\* C10: every key returned by read_weights_file has chromosome target_chrom,
\* and the denominator of the percentage is the number of distinct keys
\* retained, not the number of raw rows.
C10_TargetKeysAndDenominator ==
    /\ \A k \in weights_positions : k[1] = target_chrom
    /\ FoundMatches
          => /\ total = Cardinality(TargetWeightsKeys)
             /\ total > 0 => percentage.den = total

\* C10 witness: three raw rows, two retained, one distinct key
C10_Witness ==
    /\ FoundMatches
    /\ Len(weights_file.rows) = 3
    /\ Len(weights_df) = 2
    /\ total = 1
    /\ percentage.den = 1

====
